---- MODULE Spec2Model ----
(***************************************************************************)
(* rodario: the actor proxy's request/response correlation over redis      *)
(* pubsub (rodario/actors/proxy.py) and the decorated-method hook pipeline *)
(* with the "singular" distributed lock (rodario/decorators.py).           *)
(***************************************************************************)
EXTENDS Integers, Sequences, FiniteSets, TLC

VARIABLES
    \* ---- rodario/actors/proxy.py: one ActorProxy and its environment ----
    ctor,               \* the arguments and progress of ActorProxy.__init__
    methods,            \* names installed on the proxy by setattr (line 88)
    _response_queues,   \* self._response_queues: reply slot -> Queue object
    queues,             \* contents of the Queue object created by each call
    listener,           \* the pubsub_thread daemon: "none", "running", "dead"
    handling,           \* the slot _handler is in between its put (line 100)
                        \* and its pop (line 101): <<slot>>, or <<>>
    calls,              \* per call of _proxy: position, slot, count, request
    nextSlot,           \* source of fresh uuid4() reply slots
    actorUp,            \* whether an actor subscribes to 'actor:<uuid>'
    actorChan,          \* requests delivered to the actor, not yet answered
    proxyChan,          \* messages waiting on the 'proxy:<proxyid>' subscription
    responses,          \* history: reply slot -> value the actor published
    \* ---- rodario/decorators.py: one decorated method and its callers ----
    method,             \* the object bound to the method name: the function,
                        \* or the DecoratedMethod the decorators returned
    applied,            \* history: the decorators applied, in order
    th,                 \* per calling thread: position in __call__, locals
    log,                \* history: per thread, the callables it has invoked
    redis,              \* the keys of the redis store: value and expiry
    now                 \* the clock read by time() and by redis

proxyVars == <<ctor, methods, _response_queues, queues, listener, handling, calls,
               nextSlot, actorUp, actorChan, proxyChan, responses>>

decoVars == <<method, applied, th, log, redis, now>>

vars == <<proxyVars, decoVars>>

\* Python's None.
None == "None"

(***************************************************************************)
(*                       rodario/actors/proxy.py                           *)
(***************************************************************************)

\* Method names are sequences of characters: line 85 looks at name[0].
Ping == <<"p", "i", "n", "g">>
Incr == <<"i", "n", "c", "r">>
Hidden == <<"_", "h", "i", "d">>
GetMethodsName == <<"_", "g", "e", "t", "_", "m", "e", "t", "h", "o", "d", "s">>

\* The members of the actor being proxied, as inspect.getmembers or the
\* actor's _get_methods list them.
ActorMethods == <<GetMethodsName, Hidden, Incr, Ping>>

\* Values a remote method may return (strings).
Values == {<<"p", "o", "n", "g">>, <<"1">>}

\* Positional arguments of a proxied call.
CallArgs == {<<>>, <<"x">>}

\* The calls of _proxy: the one __init__ makes for '_get_methods', and the
\* calls made through the generated methods.
UserCalls == {"c1", "c2"}
Calls == {"init"} \cup UserCalls

\* self.proxyid: str(uuid4())
proxyid == "p1"

\* pickle.dumps / pickle.loads: the payload travels as an opaque byte string.
Dumps(obj) == [pickled |-> obj]
Loads(bytes) == bytes.pickled

\* isinstance(actor, actor_module.Actor), isinstance(uuid, str)
IsActor(a) == a = "Actor"
IsStr(u) == u = "str"

\* What a caller may pass as actor= and uuid=.
ActorArgs == {None, "Actor", "object"}
UuidArgs == {None, "str", "int"}

IdleCall ==
    [pc |-> "idle", queue |-> 0, count |-> 0, method |-> <<>>, args |-> <<>>,
     err |-> None]

ProxyStart ==
    /\ ctor \in [actor : ActorArgs, uuid : UuidArgs, pc : {"new"}, err : {None}]
    /\ methods = {}
    /\ _response_queues = <<>>
    /\ queues = [c \in Calls |-> <<>>]
    /\ listener = "none"
    /\ handling = <<>>
    /\ calls = [c \in Calls |-> IdleCall]
    /\ nextSlot = 1
    /\ actorUp \in BOOLEAN
    /\ actorChan = {}
    /\ proxyChan = <<>>
    /\ responses = <<>>

\* __init__, lines 31-57: connection, proxyid, empty registry, subscription of
\* _handler to 'proxy:<proxyid>', start of the daemon pubsub_thread.
CtorStart ==
    /\ ctor.pc = "new"
    /\ ctor' = [ctor EXCEPT !.pc = "started"]
    /\ _response_queues' = <<>>
    /\ listener' = "running"
    /\ handling' = <<>>
    /\ UNCHANGED <<methods, queues, calls, nextSlot, actorUp, actorChan,
                   proxyChan, responses>>
    /\ UNCHANGED decoVars

\* Lines 84-88: install a proxy method for every name not starting with '_'.
Public(names) == {names[k] : k \in {j \in DOMAIN names : names[j][1] # "_"}}

\* __init__, lines 59-71: the isinstance chain.
CtorBranch ==
    /\ ctor.pc = "started"
    /\ IF IsActor(ctor.actor)
       THEN /\ ctor' = [ctor EXCEPT !.pc = "ready"]
            /\ methods' = Public(ActorMethods)
       ELSE IF IsStr(ctor.uuid)
       THEN /\ ctor' = [ctor EXCEPT !.pc = "getting"]
            /\ methods' = methods
       ELSE /\ ctor' = [ctor EXCEPT !.pc = "raised",
                                     !.err = "No actor or UUID provided"]
            /\ methods' = methods
    /\ UNCHANGED <<_response_queues, queues, listener, handling, calls, nextSlot,
                   actorUp, actorChan, proxyChan, responses>>
    /\ UNCHANGED decoVars

\* _proxy, lines 114-119: fresh slot, publish of the request envelope; redis
\* returns the number of subscribers that received it.
ProxyPublish(c, m, a) ==
    /\ calls[c].pc = "idle"
    /\ IF c = "init"
       THEN ctor.pc = "getting" /\ m = GetMethodsName /\ a = <<>>
       ELSE ctor.pc = "ready" /\ m \in methods
    /\ LET queue == nextSlot
           count == IF actorUp THEN 1 ELSE 0
           msg == [data |-> Dumps(<<proxyid, queue, m, a, <<>> >>)]
       IN /\ calls' = [calls EXCEPT ![c] = [pc |-> "published", queue |-> queue,
                                            count |-> count, method |-> m,
                                            args |-> a, err |-> None]]
          /\ actorChan' = IF actorUp THEN actorChan \cup {msg} ELSE actorChan
    /\ nextSlot' = nextSlot + 1
    /\ UNCHANGED <<ctor, methods, _response_queues, queues, listener, handling, actorUp,
                   proxyChan, responses>>
    /\ UNCHANGED decoVars

\* _proxy with line 124 ahead of the check of count: the slot is registered
\* before the call raises.
ProxyRegister_First(c) ==
    /\ calls[c].pc = "published"
    /\ _response_queues' = (calls[c].queue :> c) @@ _response_queues
    /\ queues' = [queues EXCEPT ![c] = <<>>]
    /\ IF calls[c].count = 0
       THEN /\ calls' = [calls EXCEPT ![c].pc = "raised",
                                      ![c].err = "No such actor"]
            /\ ctor' = IF c = "init"
                       THEN [ctor EXCEPT !.pc = "raised", !.err = "No such actor"]
                       ELSE ctor
       ELSE /\ calls' = [calls EXCEPT ![c].pc = "registered"]
            /\ ctor' = ctor
    /\ UNCHANGED <<methods, listener, handling, nextSlot, actorUp, actorChan, proxyChan,
                   responses>>
    /\ UNCHANGED decoVars

\* _proxy, lines 121-124: raise on zero subscribers, else store a new Queue
\* under the slot.  An exception in the call made by __init__ (line 66)
\* leaves __init__.
ProxyRegister(c) ==
    /\ calls[c].pc = "published"
    /\ IF calls[c].count = 0
       THEN /\ calls' = [calls EXCEPT ![c].pc = "raised",
                                      ![c].err = "No such actor"]
            /\ ctor' = IF c = "init"
                       THEN [ctor EXCEPT !.pc = "raised", !.err = "No such actor"]
                       ELSE ctor
            /\ UNCHANGED <<_response_queues, queues>>
       ELSE /\ _response_queues' = (calls[c].queue :> c) @@ _response_queues
            /\ queues' = [queues EXCEPT ![c] = <<>>]
            /\ calls' = [calls EXCEPT ![c].pc = "registered"]
            /\ ctor' = ctor
    /\ UNCHANGED <<methods, listener, handling, nextSlot, actorUp, actorChan, proxyChan,
                   responses>>
    /\ UNCHANGED decoVars

\* _proxy, line 126: return self._response_queues[queue].  The Queue is read
\* back from the dict: if _handler has popped the slot since line 124 the
\* subscript raises KeyError, and the Queue that holds the value is lost.
ProxyReturn(c) ==
    /\ calls[c].pc = "registered"
    /\ IF calls[c].queue \in DOMAIN _response_queues
       THEN /\ calls' = [calls EXCEPT ![c].pc = "returned"]
            /\ ctor' = ctor
       ELSE /\ calls' = [calls EXCEPT ![c].pc = "raised", ![c].err = "KeyError"]
            /\ ctor' = IF c = "init"
                       THEN [ctor EXCEPT !.pc = "raised", !.err = "KeyError"]
                       ELSE ctor
    /\ UNCHANGED <<methods, _response_queues, queues, listener, handling, nextSlot,
                   actorUp, actorChan, proxyChan, responses>>
    /\ UNCHANGED decoVars

\* __init__, lines 66-69 and 84-88: .get() blocks until the reply is in the
\* queue, then the public names are installed.
CtorGet ==
    /\ ctor.pc = "getting"
    /\ calls["init"].pc = "returned"
    /\ queues["init"] # <<>>
    /\ methods' = Public(Head(queues["init"]))
    /\ queues' = [queues EXCEPT !["init"] = Tail(@)]
    /\ ctor' = [ctor EXCEPT !.pc = "ready"]
    /\ UNCHANGED <<_response_queues, listener, handling, calls, nextSlot, actorUp,
                   actorChan, proxyChan, responses>>
    /\ UNCHANGED decoVars

\* dict.pop(key, None)
Pop(d, key) == [k \in DOMAIN d \ {key} |-> d[k]]

\* _handler, lines 98-100: the envelope is unpickled and its value put on the
\* Queue stored under its slot.  A slot that is not a key of the dict makes
\* self._response_queues[queue] raise KeyError, which leaves get_message and
\* ends pubsub_thread.
_handler(message) ==
    LET data == Loads(message.data)
        queue == data[1]
    IN IF queue \in DOMAIN _response_queues
       THEN /\ queues' = [queues EXCEPT ![_response_queues[queue]] =
                                            Append(@, data[2])]
            /\ handling' = <<queue>>
            /\ listener' = listener
       ELSE /\ listener' = "dead"
            /\ UNCHANGED <<queues, handling>>

\* pubsub_thread, lines 50-52: get_message takes the next message of the
\* subscription and fires _handler on it.
ListenerPoll ==
    /\ listener = "running"
    /\ handling = <<>>
    /\ proxyChan # <<>>
    /\ proxyChan' = Tail(proxyChan)
    /\ _handler(Head(proxyChan))
    /\ UNCHANGED <<ctor, methods, _response_queues, calls, nextSlot, actorUp,
                   actorChan, responses>>
    /\ UNCHANGED decoVars

\* _handler without line 101: the entry stays in the registry.
HandlerPop_Keep ==
    /\ handling # <<>>
    /\ handling' = <<>>
    /\ UNCHANGED <<ctor, methods, _response_queues, queues, listener, calls,
                   nextSlot, actorUp, actorChan, proxyChan, responses>>
    /\ UNCHANGED decoVars

\* _handler, line 101: the slot is popped from the dict; the listener thread
\* goes back to get_message.  Callers run between line 100 and this line.
HandlerPop ==
    /\ handling # <<>>
    /\ _response_queues' = Pop(_response_queues, handling[1])
    /\ handling' = <<>>
    /\ UNCHANGED <<ctor, methods, queues, listener, calls, nextSlot, actorUp,
                   actorChan, proxyChan, responses>>
    /\ UNCHANGED decoVars

\* The actor (rodario.actors.Actor, outside this source): answers a request
\* with one response envelope (replySlotId, resultValue) on the sender's
\* private channel.
ActorRespond(req, v) ==
    /\ req \in actorChan
    /\ LET data == Loads(req.data)
           result == IF data[3] = GetMethodsName THEN ActorMethods ELSE v
       IN /\ proxyChan' = Append(proxyChan, [data |-> Dumps(<<data[2], result>>)])
          /\ responses' = (data[2] :> result) @@ responses
    /\ actorChan' = actorChan \ {req}
    /\ UNCHANGED <<ctor, methods, _response_queues, queues, listener, handling, calls,
                   nextSlot, actorUp>>
    /\ UNCHANGED decoVars

\* The actor goes away: its subscription to 'actor:<uuid>' ends.
ActorStop ==
    /\ actorUp
    /\ actorUp' = FALSE
    /\ UNCHANGED <<ctor, methods, _response_queues, queues, listener, handling, calls,
                   nextSlot, actorChan, proxyChan, responses>>
    /\ UNCHANGED decoVars

\* The most envelopes the proxy's subscription holds when the actor side
\* publishes a response nobody asked for.
MaxChan == 1

\* The actor side publishes again the response of a slot it has answered.
ActorRepeat(s) ==
    /\ s \in DOMAIN responses
    /\ Len(proxyChan) < MaxChan
    /\ proxyChan' = Append(proxyChan, [data |-> Dumps(<<s, responses[s]>>)])
    /\ UNCHANGED <<ctor, methods, _response_queues, queues, listener, handling, calls,
                   nextSlot, actorUp, actorChan, responses>>
    /\ UNCHANGED decoVars

\* A slot id no call of this proxy has drawn.
StraySlot == 0

\* A response for a slot this proxy never registered arrives on its channel.
ActorStray(v) ==
    /\ Len(proxyChan) < MaxChan
    /\ proxyChan' = Append(proxyChan, [data |-> Dumps(<<StraySlot, v>>)])
    /\ UNCHANGED <<ctor, methods, _response_queues, queues, listener, handling, calls,
                   nextSlot, actorUp, actorChan, responses>>
    /\ UNCHANGED decoVars

(***************************************************************************)
(*                         rodario/decorators.py                           *)
(***************************************************************************)

\* Python's False, the value before_singular returns when it gets no lock.
False == "False"

\* The undecorated method, a plain function with a __name__.
Function == [type |-> "function", __name__ |-> Incr]

\* The instances the method is called through, and the calling threads.
Instances == {"A", "B"}
Threads == {"t1", "t2", "t3"}
PipeThreads == {"t1", "t2"}

\* Longest before / after list of a directly constructed DecoratedMethod,
\* most decorator applications, and the last instant of the clock.
MaxHooks == 2
MaxApply == 6
MaxTime == 4

\* singular, line 96: expiry = 2
expiry == 2

\* singular, line 97: context = None
context == None

\* DecoratedMethod.__init__, lines 19-23.
DecoratedMethod(func, decorations, before, after) ==
    [type |-> "DecoratedMethod", _func |-> func, _instance |-> None,
     decorations |-> decorations, before |-> before, after |-> after]

\* isinstance(func, DecoratedMethod)
IsDecoratedMethod(func) == func.type = "DecoratedMethod"

\* blocking without the isinstance test: always a new wrapper.
blocking_rewrap(func) == DecoratedMethod(func, {"blocking"}, <<>>, <<>>)

\* blocking, lines 77-82.
blocking(func) ==
    IF IsDecoratedMethod(func)
    THEN [func EXCEPT !.decorations = @ \cup {"blocking"}]
    ELSE DecoratedMethod(func, {"blocking"}, <<>>, <<>>)

\* A hook callable.  The closures before_singular and after_singular capture
\* the func that singular was applied to (a function, or the DecoratedMethod
\* itself); app tells the closures of different applications apart.  A plain
\* hook is given by the value it returns.
SingularHook(name, func, app) ==
    [name |-> name, ret |-> None, app |-> app,
     func |-> IF IsDecoratedMethod(func)
              THEN [type |-> "DecoratedMethod", __name__ |-> <<>>]
              ELSE func]
PlainHook(ret) ==
    [name |-> "hook", ret |-> ret, app |-> 0, func |-> Function]

\* singular, lines 134-144.
singular(func) ==
    LET app == Len(applied) + 1
        before_singular == SingularHook("before_singular", func, app)
        after_singular == SingularHook("after_singular", func, app)
    IN IF IsDecoratedMethod(func)
       THEN [func EXCEPT !.decorations = @ \cup {"singular"},
                         !.before = Append(@, before_singular),
                         !.after = Append(@, after_singular)]
       ELSE DecoratedMethod(func, {"singular"}, <<before_singular>>,
                            <<after_singular>>)

\* Lines 109-110 and 130-131: '%s:%s' % (lock_context, func.__name__).
LockName(func) ==
    <<IF context = None THEN "global.lock" ELSE context, func.__name__>>

\* Only a function has __name__: a DecoratedMethod defines no such attribute.
HasName(func) == func.type = "function"

\* Values a plain hook may return; None means no veto / no override.
HookRets == {None, False, "h"}

\* Arguments of an invocation, and the base method's result for them.
Args == {"a1", "a2"}
BaseResult(args) == IF args = "a1" THEN "r1" ELSE "r2"

NoRet == [kind |-> "none", value |-> None]
Return(v) == [kind |-> "return", value |-> v]
Raise(e) == [kind |-> "raise", value |-> e]

IdleThread(obj, args) ==
    [pc |-> "idle", obj |-> obj, args |-> args, i |-> 0, result |-> None,
     ret |-> NoRet, current |-> 0, lock_expires |-> 0,
     acquired |-> FALSE, released |-> FALSE, via |-> "none"]

\* One entry of the invocation history.
Invoked(fn, i, self, args, result) ==
    [fn |-> fn, i |-> i, self |-> self, args |-> args, result |-> result]

\* Sequences of plain hooks of length at most n.
RECURSIVE HookSeqs(_)
HookSeqs(n) ==
    IF n = 0 THEN {<<>>}
    ELSE HookSeqs(n - 1) \cup
         {Append(s, PlainHook(r)) : s \in {q \in HookSeqs(n - 1) : Len(q) = n - 1},
                                    r \in HookRets}

\* The decorator subsystem at rest (while the proxy is being examined).
DecoRest ==
    /\ applied = <<>>
    /\ method = Function
    /\ th = [t \in Threads |-> IdleThread("A", "a1")]
    /\ log = [t \in Threads |-> <<>>]
    /\ redis = <<>>
    /\ now = 0

\* The proxy subsystem at rest (while the decorators are being examined).
ProxyRest ==
    /\ ctor = [actor |-> None, uuid |-> None, pc |-> "new", err |-> None]
    /\ methods = {}
    /\ _response_queues = <<>>
    /\ queues = [c \in Calls |-> <<>>]
    /\ listener = "none"
    /\ handling = <<>>
    /\ calls = [c \in Calls |-> IdleCall]
    /\ nextSlot = 1
    /\ actorUp = FALSE
    /\ actorChan = {}
    /\ proxyChan = <<>>
    /\ responses = <<>>

\* ---- applying the decorators ----

ApplyBlocking ==
    /\ Len(applied) < MaxApply
    /\ method' = blocking(method)
    /\ applied' = Append(applied, "blocking")
    /\ UNCHANGED <<th, log, redis, now>>
    /\ UNCHANGED proxyVars

ApplySingular ==
    /\ Len(applied) < MaxApply
    /\ method' = singular(method)
    /\ applied' = Append(applied, "singular")
    /\ UNCHANGED <<th, log, redis, now>>
    /\ UNCHANGED proxyVars

\* ---- DecoratedMethod.__get__ and __call__ ----

\* The loop over self.before, line 48: the next hook, or line 54.
NextBefore(r) ==
    IF r.i < Len(method.before)
    THEN [r EXCEPT !.pc = "before", !.i = r.i + 1]
    ELSE [r EXCEPT !.pc = "func", !.i = 0]

\* The loop over self.after, line 58: the next hook, or line 64.
NextAfter(r) ==
    IF r.i < Len(method.after)
    THEN [r EXCEPT !.pc = "after", !.i = r.i + 1]
    ELSE [r EXCEPT !.pc = "done", !.ret = Return(r.result)]

\* __get__, lines 34-36, and the entry of __call__, lines 45-48.
Get(t) ==
    /\ th[t].pc = "idle"
    /\ IsDecoratedMethod(method)
    /\ method' = [method EXCEPT !._instance = th[t].obj]
    /\ th' = [th EXCEPT ![t] = NextBefore([th[t] EXCEPT !.i = 0])]
    /\ UNCHANGED <<applied, log, redis, now>>
    /\ UNCHANGED proxyVars

\* __call__ testing the before-hook's result for truth ("if result:") instead
\* of "is not None".
BeforeHook_Truthy(t) ==
    /\ th[t].pc = "before"
    /\ LET callee == method.before[th[t].i]
           result == callee.ret
       IN /\ callee.name = "hook"
          /\ log' = [log EXCEPT ![t] = Append(@, Invoked("before", th[t].i,
                                        method._instance, th[t].args, None))]
          /\ th' = [th EXCEPT ![t] =
                      IF result \notin {None, False}
                      THEN [th[t] EXCEPT !.pc = "done", !.result = result,
                                         !.ret = Return(result)]
                      ELSE NextBefore([th[t] EXCEPT !.result = result])]
    /\ UNCHANGED <<method, applied, redis, now>>
    /\ UNCHANGED proxyVars

\* __call__, lines 48-52, for a plain before-hook: it is called with the
\* stored instance and the arguments; a result that is not None is returned.
BeforeHook(t) ==
    /\ th[t].pc = "before"
    /\ LET callee == method.before[th[t].i]
           result == callee.ret
       IN /\ callee.name = "hook"
          /\ log' = [log EXCEPT ![t] = Append(@, Invoked("before", th[t].i,
                                        method._instance, th[t].args, None))]
          /\ th' = [th EXCEPT ![t] =
                      IF result # None
                      THEN [th[t] EXCEPT !.pc = "done", !.result = result,
                                         !.ret = Return(result)]
                      ELSE NextBefore([th[t] EXCEPT !.result = result])]
    /\ UNCHANGED <<method, applied, redis, now>>
    /\ UNCHANGED proxyVars

\* __call__, line 54: the wrapped function runs with the stored instance.
CallFunc(t) ==
    /\ th[t].pc = "func"
    /\ log' = [log EXCEPT ![t] = Append(@, Invoked("func", 0, method._instance,
                                                   th[t].args, None))]
    /\ th' = [th EXCEPT ![t] =
                NextAfter([th[t] EXCEPT !.result = BaseResult(th[t].args),
                                        !.i = 0])]
    /\ UNCHANGED <<method, applied, redis, now>>
    /\ UNCHANGED proxyVars

\* __call__ chaining the after-hooks: a value that is not None replaces the
\* result and the loop goes on.
AfterHook_Chained(t) ==
    /\ th[t].pc = "after"
    /\ LET callee == method.after[th[t].i]
           mutated == callee.ret
       IN /\ callee.name = "hook"
          /\ log' = [log EXCEPT ![t] = Append(@, Invoked("after", th[t].i,
                                method._instance, th[t].args, th[t].result))]
          /\ th' = [th EXCEPT ![t] =
                      IF mutated # None
                      THEN NextAfter([th[t] EXCEPT !.result = mutated])
                      ELSE NextAfter(th[t])]
    /\ UNCHANGED <<method, applied, redis, now>>
    /\ UNCHANGED proxyVars

\* __call__, lines 58-62, for a plain after-hook: it is called with the stored
\* instance, the result and the arguments; a value that is not None is
\* returned in place of the result.
AfterHook(t) ==
    /\ th[t].pc = "after"
    /\ LET callee == method.after[th[t].i]
           mutated == callee.ret
       IN /\ callee.name = "hook"
          /\ log' = [log EXCEPT ![t] = Append(@, Invoked("after", th[t].i,
                                method._instance, th[t].args, th[t].result))]
          /\ th' = [th EXCEPT ![t] =
                      IF mutated # None
                      THEN [th[t] EXCEPT !.pc = "done", !.ret = Return(mutated)]
                      ELSE NextAfter(th[t])]
    /\ UNCHANGED <<method, applied, redis, now>>
    /\ UNCHANGED proxyVars

\* ---- singular: before_singular and after_singular ----

\* before_singular, lines 107-110: read the clock, compute the expiry value
\* and the lock name.  func.__name__ raises AttributeError when func is a
\* DecoratedMethod.
BeforeSingular(t) ==
    /\ th[t].pc = "before"
    /\ LET callee == method.before[th[t].i]
           current == now
           lock_expires == current + expiry + 1
       IN /\ callee.name = "before_singular"
          /\ log' = [log EXCEPT ![t] = Append(@, Invoked("before", th[t].i,
                                        method._instance, th[t].args, None))]
          /\ th' = [th EXCEPT ![t] =
                      IF HasName(callee.func)
                      THEN [th[t] EXCEPT !.pc = "setnx", !.current = current,
                                         !.lock_expires = lock_expires]
                      ELSE [th[t] EXCEPT !.pc = "done",
                                         !.ret = Raise("AttributeError")]]
    /\ UNCHANGED <<method, applied, redis, now>>
    /\ UNCHANGED proxyVars

\* The lock name of the hook thread t is in.
lock_name(t) ==
    LockName(IF th[t].pc = "after" THEN method.after[th[t].i].func
             ELSE method.before[th[t].i].func)

\* A key written by SETNX or GETSET carries no time to live.
NoTtl == 0 - 1
Entry(value) == [value |-> value, ttl |-> NoTtl]

\* Line 113: setnx.  On success the lock is taken and line 123 follows.
SetNx(t) ==
    /\ th[t].pc = "setnx"
    /\ IF lock_name(t) \notin DOMAIN redis
       THEN /\ redis' = (lock_name(t) :> Entry(th[t].lock_expires)) @@ redis
            /\ th' = [th EXCEPT ![t].pc = "expire", ![t].acquired = TRUE,
                                ![t].via = "setnx"]
       ELSE /\ redis' = redis
            /\ th' = [th EXCEPT ![t].pc = "get"]
    /\ UNCHANGED <<method, applied, log, now>>
    /\ UNCHANGED proxyVars

\* Line 115 with the comparison turned round ("current > ...").
GetLock_Flipped(t) ==
    /\ th[t].pc = "get"
    /\ th' = [th EXCEPT ![t] =
                IF lock_name(t) \notin DOMAIN redis
                THEN [th[t] EXCEPT !.pc = "done", !.ret = Raise("TypeError"),
                                   !.via = "get"]
                ELSE IF th[t].current > redis[lock_name(t)].value
                THEN [th[t] EXCEPT !.pc = "done", !.result = False,
                                   !.ret = Return(False), !.via = "get"]
                ELSE [th[t] EXCEPT !.pc = "getset"]]
    /\ UNCHANGED <<method, applied, log, redis, now>>
    /\ UNCHANGED proxyVars

\* Lines 115-117 with the veto routed through the after-hooks (as a finally
\* clause around the pipeline would do) instead of returned at once.
GetLock_RunsAfter(t) ==
    /\ th[t].pc = "get"
    /\ th' = [th EXCEPT ![t] =
                IF lock_name(t) \notin DOMAIN redis
                THEN [th[t] EXCEPT !.pc = "done", !.ret = Raise("TypeError"),
                                   !.via = "get"]
                ELSE IF th[t].current < redis[lock_name(t)].value
                THEN NextAfter([th[t] EXCEPT !.result = False, !.i = 0,
                                             !.via = "get"])
                ELSE [th[t] EXCEPT !.pc = "getset"]]
    /\ UNCHANGED <<method, applied, log, redis, now>>
    /\ UNCHANGED proxyVars

\* Lines 115-117: get.  float(None) raises TypeError when the key is gone;
\* a value in the future means the lock is held: return False.
GetLock(t) ==
    /\ th[t].pc = "get"
    /\ th' = [th EXCEPT ![t] =
                IF lock_name(t) \notin DOMAIN redis
                THEN [th[t] EXCEPT !.pc = "done", !.ret = Raise("TypeError"),
                                   !.via = "get"]
                ELSE IF th[t].current < redis[lock_name(t)].value
                THEN [th[t] EXCEPT !.pc = "done", !.result = False,
                                   !.ret = Return(False), !.via = "get"]
                ELSE [th[t] EXCEPT !.pc = "getset"]]
    /\ UNCHANGED <<method, applied, log, redis, now>>
    /\ UNCHANGED proxyVars

\* Lines 118-120 with a plain read where the race is lost: the stored value is
\* replaced only by the caller that takes the lock.
GetSet_ReadOnly(t) ==
    /\ th[t].pc = "getset"
    /\ redis' = IF /\ lock_name(t) \in DOMAIN redis
                   /\ th[t].current < redis[lock_name(t)].value
                THEN redis
                ELSE (lock_name(t) :> Entry(th[t].lock_expires)) @@ redis
    /\ th' = [th EXCEPT ![t] =
                IF lock_name(t) \notin DOMAIN redis
                THEN [th[t] EXCEPT !.pc = "done", !.ret = Raise("TypeError"),
                                   !.via = "getset"]
                ELSE IF th[t].current < redis[lock_name(t)].value
                THEN [th[t] EXCEPT !.pc = "done", !.result = False,
                                   !.ret = Return(False), !.via = "getset"]
                ELSE [th[t] EXCEPT !.pc = "expire", !.acquired = TRUE,
                                   !.via = "getset"]]
    /\ UNCHANGED <<method, applied, log, now>>
    /\ UNCHANGED proxyVars

\* Lines 118-120: getset writes the new expiry value (dropping any time to
\* live) and returns the previous value; a previous value in the future means
\* somebody else took the lock: return False.
GetSet(t) ==
    /\ th[t].pc = "getset"
    /\ redis' = (lock_name(t) :> Entry(th[t].lock_expires)) @@ redis
    /\ th' = [th EXCEPT ![t] =
                IF lock_name(t) \notin DOMAIN redis
                THEN [th[t] EXCEPT !.pc = "done", !.ret = Raise("TypeError"),
                                   !.via = "getset"]
                ELSE IF th[t].current < redis[lock_name(t)].value
                THEN [th[t] EXCEPT !.pc = "done", !.result = False,
                                   !.ret = Return(False), !.via = "getset"]
                ELSE [th[t] EXCEPT !.pc = "expire", !.acquired = TRUE,
                                   !.via = "getset"]]
    /\ UNCHANGED <<method, applied, log, now>>
    /\ UNCHANGED proxyVars

\* Line 123: expire gives the key a time to live of expiry seconds (if the
\* key is still there); before_singular then returns None.
Expire(t) ==
    /\ th[t].pc = "expire"
    /\ redis' = IF lock_name(t) \in DOMAIN redis
                THEN [redis EXCEPT ![lock_name(t)].ttl = now + expiry]
                ELSE redis
    /\ th' = [th EXCEPT ![t] = NextBefore([th[t] EXCEPT !.result = None])]
    /\ UNCHANGED <<method, applied, log, now>>
    /\ UNCHANGED proxyVars

\* after_singular deleting the key only when it still holds the expiry value
\* this caller wrote.
AfterSingular_Owned(t) ==
    /\ th[t].pc = "after"
    /\ LET callee == method.after[th[t].i]
       IN /\ callee.name = "after_singular"
          /\ log' = [log EXCEPT ![t] = Append(@, Invoked("after", th[t].i,
                                method._instance, th[t].args, th[t].result))]
          /\ IF HasName(callee.func)
             THEN /\ redis' = [k \in {j \in DOMAIN redis :
                                        \/ j # lock_name(t)
                                        \/ redis[j].value # th[t].lock_expires}
                                 |-> redis[k]]
                  /\ th' = [th EXCEPT ![t] =
                              NextAfter([th[t] EXCEPT !.released = TRUE])]
             ELSE /\ redis' = redis
                  /\ th' = [th EXCEPT ![t].pc = "done",
                                      ![t].ret = Raise("AttributeError")]
    /\ UNCHANGED <<method, applied, now>>
    /\ UNCHANGED proxyVars

\* after_singular, lines 130-132: delete the key, whoever wrote it.
AfterSingular(t) ==
    /\ th[t].pc = "after"
    /\ LET callee == method.after[th[t].i]
       IN /\ callee.name = "after_singular"
          /\ log' = [log EXCEPT ![t] = Append(@, Invoked("after", th[t].i,
                                method._instance, th[t].args, th[t].result))]
          /\ IF HasName(callee.func)
             THEN /\ redis' = [k \in DOMAIN redis \ {lock_name(t)} |-> redis[k]]
                  /\ th' = [th EXCEPT ![t] =
                              NextAfter([th[t] EXCEPT !.released = TRUE])]
             ELSE /\ redis' = redis
                  /\ th' = [th EXCEPT ![t].pc = "done",
                                      ![t].ret = Raise("AttributeError")]
    /\ UNCHANGED <<method, applied, now>>
    /\ UNCHANGED proxyVars

\* Time passes; redis drops the keys whose time to live has run out.
Tick ==
    /\ now < MaxTime
    /\ now' = now + 1
    /\ redis' = [k \in {j \in DOMAIN redis :
                          redis[j].ttl = NoTtl \/ redis[j].ttl > now + 1}
                   |-> redis[k]]
    /\ UNCHANGED <<method, applied, th, log>>
    /\ UNCHANGED proxyVars

\* ---- the specifications ----

\* Decorators applied to a function, in any order.
DecoInit ==
    /\ applied = <<>>
    /\ method = Function
    /\ th = [t \in Threads |-> IdleThread("A", "a1")]
    /\ log = [t \in Threads |-> <<>>]
    /\ redis = <<>>
    /\ now = 0
    /\ ProxyRest

DecoNext ==
    \/ ApplyBlocking
    \/ ApplySingular

DecoSpec == DecoInit /\ [][DecoNext]_vars

\* A DecoratedMethod with any plain hooks, called through instance A by one
\* thread and through instance B by another.
PipeInit ==
    /\ applied = <<>>
    /\ method \in {DecoratedMethod(Function, {}, b, a) :
                     b \in HookSeqs(MaxHooks), a \in HookSeqs(MaxHooks)}
    /\ th = [t \in Threads |->
               IF t = "t1" THEN IdleThread("A", "a1") ELSE IdleThread("B", "a2")]
    /\ log = [t \in Threads |-> <<>>]
    /\ redis = <<>>
    /\ now = 0
    /\ ProxyRest

PipeNext ==
    \E t \in PipeThreads :
        \/ Get(t)
        \/ BeforeHook(t)
        \/ CallFunc(t)
        \/ AfterHook(t)

PipeSpec == PipeInit /\ [][PipeNext]_vars

\* A method decorated singular, invoked by several callers against one redis.
LockInit ==
    /\ applied = <<>>
    /\ method = singular(Function)
    /\ th = [t \in Threads |-> IdleThread("A", "a1")]
    /\ log = [t \in Threads |-> <<>>]
    /\ redis = <<>>
    /\ now = 0
    /\ ProxyRest

LockNext ==
    \/ \E t \in Threads :
        \/ Get(t)
        \/ BeforeSingular(t)
        \/ SetNx(t)
        \/ GetLock(t)
        \/ GetSet(t)
        \/ Expire(t)
        \/ CallFunc(t)
        \/ AfterSingular(t)
    \/ Tick

LockSpec == LockInit /\ [][LockNext]_vars

\* Most decorators stacked on the method of a class that is then used.
MaxOrder == 2

\* The class body is evaluated before any of its methods is called.
ClassBody ==
    /\ Len(applied) < MaxOrder
    /\ \A t \in Threads : th[t].pc = "idle"

DecorateBlocking == ClassBody /\ ApplyBlocking
DecorateSingular == ClassBody /\ ApplySingular

\* A method under blocking and singular stacked in any order, then invoked
\* by two callers against one redis.
ComposeInit == DecoInit

ComposeNext ==
    \/ DecorateBlocking
    \/ DecorateSingular
    \/ \E t \in PipeThreads :
        \/ Get(t)
        \/ BeforeSingular(t)
        \/ SetNx(t)
        \/ GetLock(t)
        \/ GetSet(t)
        \/ Expire(t)
        \/ CallFunc(t)
        \/ AfterSingular(t)
    \/ Tick

ComposeSpec == ComposeInit /\ [][ComposeNext]_vars

\* Most plain hooks that share a hook list with a hook of singular.
MaxAround == 1

\* The hook lists made of hook x and at most MaxAround plain hooks, x at any
\* position.  The plain hooks return None or a value; to __call__ every value
\* that is not None is alike.
MixLists(x) ==
    UNION {{SubSeq(q, 1, k) \o <<x>> \o SubSeq(q, k + 1, Len(q)) : k \in 0..Len(q)} :
             q \in {h \in HookSeqs(MaxAround) :
                      \A k \in 1..Len(h) : h[k].ret # False}}

\* A DecoratedMethod whose before and after lists hold the hooks of singular
\* among plain hooks, invoked by two callers against one redis.
MixInit ==
    /\ applied = <<>>
    /\ method \in {DecoratedMethod(Function, {"singular"}, b, a) :
                      b \in MixLists(SingularHook("before_singular", Function, 1)),
                      a \in MixLists(SingularHook("after_singular", Function, 1))}
    /\ th = [t \in Threads |-> IdleThread("A", "a1")]
    /\ log = [t \in Threads |-> <<>>]
    /\ redis = <<>>
    /\ now = 0
    /\ ProxyRest

MixNext ==
    \/ \E t \in PipeThreads :
        \/ Get(t)
        \/ BeforeHook(t)
        \/ BeforeSingular(t)
        \/ SetNx(t)
        \/ GetLock(t)
        \/ GetSet(t)
        \/ Expire(t)
        \/ CallFunc(t)
        \/ AfterHook(t)
        \/ AfterSingular(t)
    \/ Tick

MixSpec == MixInit /\ [][MixNext]_vars

ProxyNext ==
    \/ CtorStart
    \/ CtorBranch
    \/ CtorGet
    \/ \E c \in Calls, k \in DOMAIN ActorMethods, a \in CallArgs :
           ProxyPublish(c, ActorMethods[k], a)
    \/ \E c \in Calls : ProxyRegister(c)
    \/ \E c \in Calls : ProxyReturn(c)
    \/ ListenerPoll
    \/ HandlerPop
    \/ \E req \in actorChan, v \in Values : ActorRespond(req, v)
    \/ ActorStop

ProxyInit ==
    /\ DecoRest
    /\ ProxyStart

ProxySpec == ProxyInit /\ [][ProxyNext]_vars

\* The caller's thread and the listener thread are both scheduled: a thread
\* that can take its next step eventually takes it.
FairProxySpec ==
    /\ ProxySpec
    /\ WF_vars(ListenerPoll)
    /\ WF_vars(HandlerPop)
    /\ WF_vars(CtorGet)
    /\ \A c \in Calls : WF_vars(ProxyRegister(c)) /\ WF_vars(ProxyReturn(c))

\* The proxy with a channel on which responses can arrive twice, or for slots
\* it never registered.
DupProxyNext ==
    \/ ProxyNext
    \/ \E s \in DOMAIN responses : ActorRepeat(s)
    \/ \E v \in Values : ActorStray(v)

DupProxySpec == ProxyInit /\ [][DupProxyNext]_vars

(***************************************************************************)
(*                     Properties of the actor proxy                       *)
(***************************************************************************)

\* The envelope at the head of the proxy's subscription, decoded.
HeadEnvelope == Loads(Head(proxyChan).data)

\* The listener takes a step that handles the head envelope.
Handles ==
    /\ listener = "running" /\ handling = <<>>
    /\ proxyChan # <<>> /\ proxyChan' = Tail(proxyChan)

\* C1: when the listener handles a response envelope (slot, value) whose slot
\* is in the registry, the queue of the call that owns the slot, and no other
\* queue, receives the value the actor published (line 100), and when the
\* handler ends (line 101) that slot, and no other, has left the registry.
C1_ReplyCorrelation ==
    [][/\ \A s \in DOMAIN _response_queues :
            (Handles /\ HeadEnvelope[1] = s)
              => LET c == _response_queues[s]
                 IN /\ calls[c].queue = s
                    /\ queues' = [queues EXCEPT ![c] = Append(@, responses[s])]
                    /\ handling' = <<s>>
       /\ (handling # <<>> /\ handling' = <<>>)
            => /\ handling[1] \notin DOMAIN _response_queues'
               /\ DOMAIN _response_queues' = DOMAIN _response_queues \ {handling[1]}
               /\ queues' = queues]_vars

\* C1 witness: with two calls pending, one has received its value and left the
\* registry while the other is still registered with an empty queue.
C1_Witness ==
    \E c \in UserCalls, d \in UserCalls :
        /\ c # d
        /\ calls[c].pc = "returned" /\ calls[d].pc = "returned"
        /\ calls[c].queue \in DOMAIN responses
        /\ queues[c] = <<responses[calls[c].queue]>>
        /\ calls[c].queue \notin DOMAIN _response_queues
        /\ calls[d].queue \in DOMAIN _response_queues
        /\ queues[d] = <<>>

\* The call has its result: _proxy has returned the queue and the value is in
\* it, or __init__ has taken it out with .get().
Resolved(c) ==
    \/ calls[c].pc = "returned" /\ queues[c] # <<>>
    \/ c = "init" /\ ctor.pc = "ready"

\* C2: every call whose publish reached a subscriber and whose response the
\* actor has published eventually has its result, under fair scheduling of
\* the calling thread and the listener thread.
C2_CallResolves ==
    \A c \in Calls :
        (calls[c].count > 0 /\ calls[c].queue \in DOMAIN responses) ~> Resolved(c)

\* C3: a call whose publish reported zero subscribers raises 'No such actor',
\* gets no queue, and leaves the registry as it was: no entry exists for its
\* slot.
C3_NoSuchActor ==
    [][\A c \in Calls :
         /\ (calls[c].pc = "published" /\ calls[c].count = 0 /\ calls'[c] # calls[c])
              => /\ calls'[c].pc = "raised"
                 /\ calls'[c].err = "No such actor"
                 /\ _response_queues' = _response_queues
                 /\ queues' = queues
         /\ calls'[c].err = "No such actor"
              => /\ calls'[c].pc = "raised"
                 /\ calls'[c].count = 0
                 /\ calls'[c].queue \notin DOMAIN _response_queues']_vars

\* C3 witness: a call has raised on zero subscribers while another call's
\* slot is registered.
C3_Witness ==
    \E c \in UserCalls :
        /\ calls[c].pc = "raised"
        /\ calls[c].err = "No such actor"
        /\ calls[c].count = 0
        /\ DOMAIN _response_queues # {}
        /\ calls[c].queue \notin DOMAIN _response_queues

\* C10: construction with both an actor and a uuid, or with neither, fails
\* with the configuration error; construction with exactly one does not.
C10_ExactlyOneOf ==
    LET both == IsActor(ctor.actor) /\ IsStr(ctor.uuid)
        neither == ctor.actor = None /\ ctor.uuid = None
        one == (IsActor(ctor.actor) /\ ctor.uuid = None)
                 \/ (ctor.actor = None /\ IsStr(ctor.uuid))
    IN /\ (both \/ neither) => ctor.pc \in {"new", "started", "raised"}
       /\ (both \/ neither) /\ ctor.pc = "raised"
            => ctor.err = "No actor or UUID provided"
       /\ one => ctor.err # "No actor or UUID provided"

\* C11: when the listener handles a response whose slot is not in the
\* registry (never registered, or already resolved by an earlier response),
\* nothing is delivered to any queue, the registry is unchanged, and the
\* listener keeps running, so that later responses are still handled.
C11_UnknownSlotDropped ==
    [][(Handles /\ HeadEnvelope[1] \notin DOMAIN _response_queues)
         => /\ queues' = queues
            /\ _response_queues' = _response_queues
            /\ listener' = "running"]_vars

\* C12: the slot of a call is registered before its request is published:
\* whenever the listener handles the response for a call's slot, the slot is
\* in the registry.
C12_RegisteredBeforeHandled ==
    [][\A c \in Calls :
         (Handles /\ calls[c].pc # "idle" /\ HeadEnvelope[1] = calls[c].queue)
           => calls[c].queue \in DOMAIN _response_queues]_vars

(***************************************************************************)
(*         Properties of the hook pipeline and the singular lock           *)
(***************************************************************************)

\* The invocation history l holds a call of the wrapped function.
RanIn(l) == \E k \in 1..Len(l) : l[k].fn = "func"
Ran(t) == RanIn(log[t])

\* Caller t holds the lock: it acquired it, has not run its release hook, and
\* the clock is before the expiry value it wrote.
Holding(t) ==
    th[t].acquired /\ ~th[t].released /\ now < th[t].lock_expires

\* C4: method decorated singular, no lock entry at the start; two callers
\* invoke it within the lock window of each other (their clock readings
\* differ by less than the ttl): exactly one of them executes the base method
\* and returns its result, the other returns False.
C4_SingularScenario ==
    \A a \in Threads, b \in Threads :
        (/\ a # b
         /\ \A c \in Threads \ {a, b} : th[c].pc = "idle"
         /\ th[a].pc = "done" /\ th[b].pc = "done"
         /\ th[a].current - th[b].current < expiry
         /\ th[b].current - th[a].current < expiry)
        => \/ /\ Ran(a) /\ th[a].ret = Return(BaseResult(th[a].args))
              /\ ~Ran(b) /\ th[b].ret = Return(False)
           \/ /\ Ran(b) /\ th[b].ret = Return(BaseResult(th[b].args))
              /\ ~Ran(a) /\ th[a].ret = Return(False)

\* C5: no two callers hold the lock on the same name at once: no acquisition
\* succeeds while another caller holds an unexpired, unreleased lock.
C5_MutualExclusion ==
    \A a \in Threads, b \in Threads : a # b => ~(Holding(a) /\ Holding(b))

\* The lock entry exists with a stored expiry value greater than the clock
\* reading of t's attempt.
HeldFor(t) ==
    /\ lock_name(t) \in DOMAIN redis
    /\ redis[lock_name(t)].value > th[t].current

\* C6: an acquisition attempt that finds the lock entry with a stored expiry
\* value greater than its clock reading writes nothing to the store (no value,
\* no time to live), returns False, and the base method is not executed for
\* that invocation.
C6_HeldLockVetoes ==
    [][\A t \in Threads :
         /\ (th[t].pc \in {"setnx", "get"} /\ HeldFor(t) /\ th'[t] # th[t])
              => /\ redis' = redis
                 /\ log'[t] = log[t]
                 /\ ~th'[t].acquired
                 /\ th[t].pc = "setnx" => th'[t].pc = "get"
                 /\ th[t].pc = "get" => /\ th'[t].pc = "done"
                                        /\ th'[t].ret = Return(False)
         /\ th'[t].ret = Return(False)
              => /\ th'[t].pc = "done"
                 /\ ~RanIn(log'[t])
                 /\ ~th'[t].acquired]_vars

\* C6 witness: a caller has been vetoed without running the base method while
\* another caller holds the lock and the entry is in the store.
C6_Witness ==
    \E t \in Threads, h \in Threads :
        /\ t # h
        /\ th[t].pc = "done" /\ th[t].ret = Return(False) /\ ~Ran(t)
        /\ Holding(h) /\ th[h].pc = "func"
        /\ DOMAIN redis # {}

\* The index of the first hook that returns a value, 0 if none does.
FirstNonNull(hooks) ==
    LET S == {k \in 1..Len(hooks) : hooks[k].ret # None}
    IN IF S = {} THEN 0 ELSE CHOOSE k \in S : \A j \in S : k <= j

\* C7: if h_k is the first before-hook returning a value, the call returns
\* that value after invoking the before-hooks 1..k in order and nothing else
\* (no later before-hook, not the base method, no after-hook); if no
\* before-hook returns a value, the base method is invoked exactly once, after
\* all before-hooks, with the original arguments.
C7_BeforeShortCircuit ==
    \A t \in PipeThreads :
        LET k == FirstNonNull(method.before)
            n == Len(method.before)
            l == log[t]
        IN IF k > 0
           THEN /\ Len(l) <= k
                /\ \A e \in 1..Len(l) :
                       l[e].fn = "before" /\ l[e].i = e /\ l[e].args = th[t].args
                /\ th[t].pc = "done"
                     => Len(l) = k /\ th[t].ret = Return(method.before[k].ret)
           ELSE /\ \A e \in 1..Len(l) :
                       /\ (e <= n => l[e].fn = "before" /\ l[e].i = e)
                       /\ (e = n + 1 => l[e].fn = "func" /\ l[e].args = th[t].args)
                       /\ (e > n + 1 => l[e].fn = "after")
                /\ th[t].pc = "done" => Len(l) >= n + 1

\* C7 witness: a call has returned False from the second of two before-hooks,
\* the first having returned None, on a method that has after-hooks.
C7_Witness ==
    \E t \in PipeThreads :
        /\ th[t].pc = "done"
        /\ Len(method.before) = 2
        /\ method.before[1].ret = None
        /\ method.before[2].ret = False
        /\ Len(method.after) > 0
        /\ th[t].ret = Return(False)
        /\ Len(log[t]) = 2

\* C8: with no before-hook veto, the after-hooks run in order, each with the
\* base method's result and the original arguments; the first one returning a
\* value ends the call with that value, the rest are not invoked; if none
\* returns a value the call returns the base method's result.
C8_AfterOverride ==
    \A t \in PipeThreads :
        FirstNonNull(method.before) = 0 =>
            LET m == FirstNonNull(method.after)
                n == Len(method.before)
                last == IF m > 0 THEN m ELSE Len(method.after)
                l == log[t]
                base == BaseResult(th[t].args)
            IN /\ Len(l) <= n + 1 + last
               /\ \A e \in 1..Len(l) :
                      e > n + 1 => /\ l[e].fn = "after"
                                   /\ l[e].i = e - n - 1
                                   /\ l[e].result = base
                                   /\ l[e].args = th[t].args
               /\ th[t].pc = "done"
                    => /\ Len(l) = n + 1 + last
                       /\ th[t].ret = Return(IF m > 0 THEN method.after[m].ret
                                             ELSE base)

\* C8 witness: a call has returned the value of the second of two after-hooks,
\* the first having returned None, after the before-hooks and the base method.
C8_Witness ==
    \E t \in PipeThreads :
        /\ th[t].pc = "done"
        /\ Len(method.before) > 0
        /\ FirstNonNull(method.before) = 0
        /\ Len(method.after) = 2
        /\ method.after[1].ret = None
        /\ method.after[2].ret = "h"
        /\ th[t].ret = Return("h")
        /\ Ran(t)

\* The applications of singular, and the n-th of them.
SingularApps == {k \in 1..Len(applied) : applied[k] = "singular"}
NthSingular(n) ==
    CHOOSE k \in SingularApps : Cardinality({j \in SingularApps : j <= k}) = n

\* C9: after any sequence of applications of blocking and singular, the
\* method is one DecoratedMethod around the original function, tagged with
\* exactly the decorators applied, whose before and after lists hold one
\* acquire / release hook per application of singular, in order of
\* application (blocking adds none).
C9_CumulativeDecoration ==
    IF applied = <<>>
    THEN method = Function
    ELSE /\ IsDecoratedMethod(method)
         /\ method._func = Function
         /\ method.decorations = {applied[k] : k \in 1..Len(applied)}
         /\ Len(method.before) = Cardinality(SingularApps)
         /\ Len(method.after) = Cardinality(SingularApps)
         /\ \A n \in 1..Len(method.before) :
                /\ method.before[n].name = "before_singular"
                /\ method.before[n].app = NthSingular(n)
         /\ \A n \in 1..Len(method.after) :
                /\ method.after[n].name = "after_singular"
                /\ method.after[n].app = NthSingular(n)

\* C9 witness: blocking, then singular twice with blocking in between.
C9_Witness ==
    /\ Len(applied) = 4
    /\ applied = <<"blocking", "singular", "blocking", "singular">>
    /\ Len(method.before) = 2
    /\ method.decorations = {"blocking", "singular"}

\* C14: the release hook is not ownership-checked: after any caller's release
\* the lock entry is absent, whatever value it held and whoever wrote it.
C14_UnconditionalRelease ==
    [][\A t \in Threads :
         (th[t].pc = "after" /\ ~th[t].released /\ th'[t].released)
           => lock_name(t) \notin DOMAIN redis']_vars

\* C14 witness: a acquired; b took the lock over through getset once a's
\* stored expiry had passed; a's release has run and the entry b wrote is gone
\* while b, inside its own lock window, still executes the method.
C14_Witness ==
    \E a \in Threads, b \in Threads :
        /\ a # b
        /\ th[a].via = "setnx" /\ th[a].released /\ th[a].pc = "done"
        /\ th[b].via = "getset" /\ ~th[b].released /\ th[b].pc = "func"
        /\ th[b].current >= th[a].lock_expires
        /\ now < th[b].lock_expires
        /\ \A c \in Threads \ {a, b} : th[c].pc = "idle"
        /\ LockName(Function) \notin DOMAIN redis

\* C18: an acquisition attempt never ends in an error, whatever releases and
\* expiries of the key interleave with it: it ends with the lock acquired or
\* with False returned.
C18_NoAcquisitionError ==
    \A t \in Threads :
        /\ th[t].ret.kind # "raise"
        /\ (th[t].pc = "done" /\ ~th[t].acquired) => th[t].ret = Return(False)

\* Caller t's attempt ends with False in this step.
Vetoed(t) == th[t].ret # Return(False) /\ th'[t].ret = Return(False)

\* C19 as stated: an attempt that returns False leaves the lock entry, its
\* stored expiry value and its time to live, as they were, on both branches.
C19_VetoNoEffect ==
    [][\A t \in Threads : Vetoed(t) => redis' = redis]_vars

\* C19 amended: an attempt that returns False from the get branch leaves the
\* entry as it was; one that returns False from the getset branch has
\* replaced the stored expiry value with its own and removed the time to
\* live; in both cases the attempt ends there, without setting a time to
\* live.
C19_VetoEffect ==
    [][\A t \in Threads :
         Vetoed(t)
           => /\ th[t].pc \in {"get", "getset"}
              /\ th'[t].pc = "done"
              /\ lock_name(t) \in DOMAIN redis
              /\ redis[lock_name(t)].value > th[t].current
              /\ th[t].pc = "get" => redis' = redis
              /\ th[t].pc = "getset"
                   => redis' = [redis EXCEPT
                                  ![lock_name(t)] = Entry(th[t].lock_expires)]]_vars

\* C19 witness: h took the lock through getset; t, which had seen the same
\* expired entry, lost the race at getset and returned False, and the entry
\* now holds t's expiry value, not h's, and no time to live.
C19_Witness ==
    \E t \in Threads, h \in Threads :
        /\ t # h
        /\ th[t].pc = "done" /\ th[t].ret = Return(False)
        /\ th[h].via = "getset" /\ th[h].acquired /\ ~th[h].released
        /\ th[t].via = "getset"
        /\ th[h].lock_expires # th[t].lock_expires
        /\ LockName(Function) \in DOMAIN redis
        /\ redis[LockName(Function)] = Entry(th[t].lock_expires)

\* The callers whose attempt found the entry expired and was decided by
\* getset, and those that are about to call getset.
Stealers == {t \in Threads : th[t].via = "getset"}
AtGetSet == {t \in Threads : th[t].pc = "getset"}

\* Each of two attempts reads the clock inside the lock window of the other.
SameWindow(a, b) ==
    th[a].current < th[b].lock_expires /\ th[b].current < th[a].lock_expires

\* C13: the entry exists with an expired value and one or more callers
\* attempt to take it over, all within one lock window and with no release in
\* between: exactly one of them acquires the lock through getset, every other
\* one returns False; a lone attempt succeeds.
C13_StealPath ==
    (/\ Stealers # {}
     /\ AtGetSet = {}
     /\ \A t \in Threads : ~th[t].released
     /\ \A a \in Stealers, b \in Stealers : SameWindow(a, b))
    => /\ Cardinality({t \in Stealers : th[t].acquired}) = 1
       /\ \A t \in Stealers : ~th[t].acquired => th[t].ret = Return(False)

\* C16: with one thread calling through instance A and another through
\* instance B, in every interleaving of __get__ and __call__ each hook and
\* the base method receive the instance their own call was made through.
C16_ReceiverIsolation ==
    \A t \in PipeThreads :
        \A e \in 1..Len(log[t]) : log[t][e].self = th[t].obj

\* C15: whatever the order in which blocking and singular were applied to
\* the method, an invocation computes its lock name from the name of the
\* base method without failing, and acquires and releases on that key only.
C15_LockNameUnderComposition ==
    /\ \A t \in PipeThreads :
           /\ th[t].ret # Raise("AttributeError")
           /\ th[t].pc \in {"setnx", "get", "getset", "expire"}
                => lock_name(t) = LockName(Function)
    /\ DOMAIN redis \subseteq {LockName(Function)}

\* C17: in every pipeline that holds the hooks of singular, an invocation
\* whose acquire hook obtained the lock has run the release hook by the time
\* it returns, whatever the other hooks return.
C17_AcquireImpliesRelease ==
    \A t \in PipeThreads :
        (th[t].pc = "done" /\ th[t].acquired) => th[t].released

\* The acquire hook of t's invocation returned False.
LockVetoed(r) == r.via \in {"get", "getset"} /\ ~r.acquired /\ r.ret = Return(False)

\* C20: an invocation whose acquire hook returned False ends there and never
\* runs the release hook; the release hook is run, and the key deleted, only
\* by an invocation whose own acquisition succeeded.
C20_VetoedNeverReleases ==
    [][\A t \in PipeThreads :
         /\ (/\ th[t].pc = "after"
             /\ method.after[th[t].i].name = "after_singular"
             /\ th'[t] # th[t])
              => th[t].acquired /\ th[t].ret # Return(False)
         /\ LockVetoed(th'[t])
              => /\ th'[t].pc = "done"
                 /\ ~th'[t].released
                 /\ \A e \in 1..Len(log'[t]) : log'[t][e].fn # "after"]_vars

\* C20 witness: in a pipeline with plain hooks around the hooks of singular,
\* one caller was vetoed by the acquire hook and has returned without
\* releasing, while the holder is still in the base method and the entry is
\* in the store.
C20_Witness ==
    \E t \in PipeThreads, h \in PipeThreads :
        /\ t # h
        /\ Len(method.before) = 2 /\ Len(method.after) = 2
        /\ LockVetoed(th[t]) /\ th[t].pc = "done" /\ ~th[t].released
        /\ th[h].acquired /\ ~th[h].released /\ th[h].pc = "func"
        /\ LockName(Function) \in DOMAIN redis

====
